---- MODULE Spec2Model ----
(***************************************************************************)
(* A model of vscan-backup-file-detector (src/main.py): the URL validator, *)
(* the sequential prober and the reporter, as one run of main().           *)
(*                                                                         *)
(* Text is modelled as a sequence of one-character strings, so that        *)
(* url + ext is real concatenation and urlparse really scans characters.   *)
(* An optional value (None or a value) is a sequence of length 0 or 1.     *)
(***************************************************************************)
EXTENDS Integers, Sequences, FiniteSets, TLC

\* ------------------------------------------------------------------ bounds

\* Longest URL string the validator is explored on (UrlSpec).
MaxLen == 6
\* Most redirects one GET follows before it resolves.
MaxHops == 1

\* ------------------------------------------------------------- text helpers

None == << >>
Some(x) == << x >>
IsNone(o) == Len(o) = 0

Contains(s, c) == \E k \in 1..Len(s) : s[k] = c

\* str.find(c, start): the first index >= start holding c, 0 when there is none
\* (1-based, so 0 plays the part of Python's -1).
Find(s, c, start) ==
  IF \E k \in start..Len(s) : s[k] = c
  THEN CHOOSE k \in start..Len(s) : s[k] = c /\ \A j \in start..(k - 1) : s[j] # c
  ELSE 0

\* s[from:] of Python, with from 1-based.
Tail_(s, from) == SubSeq(s, from, Len(s))

RECURSIVE LStrip(_)
\* str.lstrip of the blank: urlsplit strips leading C0 controls and spaces.
LStrip(s) == IF Len(s) > 0 /\ s[1] = " " THEN LStrip(Tail(s)) ELSE s

\* str.lower on the letters of the model's alphabet.
Lower(c) == IF c = "A" THEN "a" ELSE c

Letters == {"a", "e", "h", "n", "o", "t", "u", "r", "l", "A"}
Digits == {"1", "8"}
\* urllib.parse.scheme_chars: letters, digits and + - .
scheme_chars == Letters \cup Digits \cup {"+", "-", "."}
HexDigits == {"a", "e", "A", "1", "8"}

\* ------------------------------------------------------- urllib.parse model

\* str.split(c): the pieces of s between occurrences of c.
RECURSIVE Split(_, _)
Split(s, c) ==
  LET k == Find(s, c, 1)
  IN IF k = 0 THEN << s >>
     ELSE << SubSeq(s, 1, k - 1) >> \o Split(Tail_(s, k + 1), c)

\* ipaddress.IPv6Address on text without '.', '%' or '/': hextets of 1..4 hex
\* digits, at most one '::', eight groups once the '::' is expanded.
IsIPv6(h) ==
  LET parts == Split(h, ":")
      n == Len(parts)
      skips == {k \in 2..(n - 1) : parts[k] = << >>}
      hextet(p) == Len(p) \in 1..4 /\ \A k \in 1..Len(p) : p[k] \in HexDigits
  IN /\ n >= 3
     /\ n <= 9
     /\ Cardinality(skips) <= 1
     /\ IF skips # {}
        THEN LET sk == CHOOSE k \in skips : TRUE
                 hi0 == sk - 1
                 lo0 == n - sk
                 hi == IF parts[1] = << >> THEN hi0 - 1 ELSE hi0
                 lo == IF parts[n] = << >> THEN lo0 - 1 ELSE lo0
             IN /\ (parts[1] = << >> => hi = 0)
                /\ (parts[n] = << >> => lo = 0)
                /\ 8 - (hi + lo) >= 1
        ELSE /\ n = 8
             /\ parts[1] # << >>
             /\ parts[n] # << >>
     /\ \A k \in 1..n : parts[k] # << >> => hextet(parts[k])

\* _check_bracketed_host: the text between '[' and ']' must be an IPv6 address
\* (an IPvFuture literal needs 'v' and '.', an IPv4 address is refused).
bracketed_ok(netloc) ==
  LET open == Find(netloc, "[", 1)
      after == Tail_(netloc, open + 1)
      close == Find(after, "]", 1)
      host == IF close = 0 THEN after ELSE SubSeq(after, 1, close - 1)
  IN IsIPv6(host)

\* _splitnetloc(url, 2): the authority runs from after '//' to the first of / ? #.
splitnetloc_end(url) ==
  LET ds == {Find(url, c, 3) : c \in {"/", "?", "#"}} \ {0}
  IN IF ds = {} THEN Len(url) + 1
     ELSE CHOOSE d \in ds : \A e \in ds : d <= e

\* urlsplit: [err, scheme, netloc]; err stands for the ValueError it raises.
urlsplit(url0) ==
  LET url1 == LStrip(url0)
      i == Find(url1, ":", 1)
      has_scheme == /\ i > 1
                    /\ url1[1] \in Letters
                    /\ \A k \in 1..(i - 1) : url1[k] \in scheme_chars
      scheme == IF has_scheme THEN [k \in 1..(i - 1) |-> Lower(url1[k])] ELSE << >>
      url2 == IF has_scheme THEN Tail_(url1, i + 1) ELSE url1
      has_netloc == Len(url2) >= 2 /\ url2[1] = "/" /\ url2[2] = "/"
      netloc == IF has_netloc THEN SubSeq(url2, 3, splitnetloc_end(url2) - 1) ELSE << >>
      unbalanced == Contains(netloc, "[") # Contains(netloc, "]")
      bad_host == Contains(netloc, "[") /\ Contains(netloc, "]") /\ ~bracketed_ok(netloc)
  IN [err |-> unbalanced \/ bad_host, scheme |-> scheme, netloc |-> netloc]

\* is_valid_url (src/main.py 28-37): all([scheme, netloc]), False on any exception.
is_valid_url(url) ==
  LET result == urlsplit(url)
  IN IF result.err THEN FALSE
     ELSE result.scheme # << >> /\ result.netloc # << >>


\* ------------------------------------------------------------ program text

\* BACKUP_EXTENSIONS (src/main.py 15)
BACKUP_EXTENSIONS ==
  << <<".", "b", "a", "k">>,
     <<".", "s", "w", "p">>,
     <<"~">>,
     <<".", "o", "l", "d">>,
     <<".", "t", "m", "p">>,
     <<".", "b", "a", "c", "k", "u", "p">>,
     <<".", "o", "r", "i", "g">> >>

NL == << "\n" >>
\* print(x) and f.write(x + "\n"): the text followed by a newline.
Line(x) == x \o NL
HEADER == << "Possible backup files found:" >>
NOT_FOUND == << "No backup files found." >>

\* ------------------------------------------------------------------ inputs

\* URLs given on the command line: a plain one, one without a scheme, one
\* urlparse raises ValueError on.
U_plain == <<"h", ":", "/", "/", "e", "/", "a">>
U_noscheme == <<"n", "o", "t", " ", "a", " ", "u", "r", "l">>
U_bracket == <<"h", ":", "/", "/", "[">>
Urls == {U_plain, U_noscheme, U_bracket}

\* -e lists (nargs='+': never empty when given); -e absent is None.
E_config == <<".", "c", "o", "n", "f", "i", "g">>
E_old == <<".", "o", "l", "d">>
E_empty == << >>
CustomLists == { << E_config >>, << E_old, E_config >>, << E_empty, E_old >> }
ExtensionArgs == {None} \cup {Some(l) : l \in CustomLists}

\* -o values: absent, the empty string, a path.
OutputArgs == {None, Some(<< >>), Some(<<"r">>)}

\* The output file before the run: absent, or holding earlier text.
OldText == <<"o", "l", "d", "\n">>
Files == {None, Some(OldText)}

\* What a GET can end in: a final response with a status, or a RequestException
\* raised by the transport (connection, timeout, DNS, too many redirects).
Statuses == {200, 204, 304, 404, 500}
Outcomes == [kind : {"response"}, status : Statuses] \cup [kind : {"error"}, status : {0}]

\* The outcome is a final response with status exactly 200.
Is200(o) == o.kind = "response" /\ o.status = 200

\* Characters the validator is explored on.
UrlChars == {"a", "1", ":", "/", "@", "[", " "}
UrlStrings == UNION {[1..n -> UrlChars] : n \in 0..MaxLen}

\* -------------------------------------------------------------------- state

VARIABLES
  url,                \* args.url
  verbose,            \* args.verbose
  output,             \* args.output: None or Some(path)
  extensions,         \* args.extensions: None or Some(list)
  ok200,              \* the server: the suffix positions whose candidate ends in a 200
  file0,              \* the output file before the run
  file,               \* the output file: None (absent) or Some(text)
  opens,              \* number of open() calls on the output file
  pc,                 \* position of the run
  exit_status,        \* None while running, Some(code) once exited
  extensions_to_use,  \* main's local
  i,                  \* position of the for loop of check_backup_files
  found_files,        \* check_backup_files' accumulator
  gets,               \* every requests.get call so far: [pos, url]
  inflight,           \* positions whose GET has been issued and not yet resolved
  hops,               \* redirects followed by the GET in flight (0 when none is)
  raised,             \* positions whose probe ended in the except branch
  stdout,             \* text printed to standard output
  log                 \* records the logger emitted: <<level, message>>

vars == << url, verbose, output, extensions, ok200, file0, file, opens, pc,
           exit_status, extensions_to_use, i, found_files, gets, inflight, hops,
           raised, stdout, log >>

args == << url, verbose, output, extensions, ok200, file0 >>

\* Python truthiness of an optional string or list: neither None nor empty.
Truthy(o) == ~IsNone(o) /\ Len(o[1]) > 0

\* logging at the level main configured: DEBUG records pass only with -v.
Emit(l, level, msg) ==
  IF level = "DEBUG" /\ ~verbose THEN l ELSE Append(l, << level, msg >>)

\* extensions_to_use with the user's list put in front of the defaults.
ExtensionsToUse_merged(e) == IF Truthy(e) THEN e[1] \o BACKUP_EXTENSIONS ELSE BACKUP_EXTENSIONS

\* args.extensions if args.extensions else BACKUP_EXTENSIONS (src/main.py 103)
ExtensionsToUse(e) == IF Truthy(e) THEN e[1] ELSE BACKUP_EXTENSIONS

\* backup_url = url + ext (src/main.py 52)
backup_url(u, ext) == u \o ext

\* The try body raises RequestException: the transport failed, or
\* raise_for_status met a 4xx or 5xx status (src/main.py 55-56, 63).
raises(o) == o.kind = "error" \/ (o.status >= 400 /\ o.status < 600)

\* The status test as response.ok would make it.
status_is_below_400(o) == o.status < 400

\* response.status_code == 200 (src/main.py 57)
status_is_200(o) == o.status = 200

Init ==
  /\ url \in Urls
  /\ verbose \in BOOLEAN
  /\ output \in OutputArgs
  /\ extensions \in ExtensionArgs
  /\ ok200 \in SUBSET (1..Len(ExtensionsToUse(extensions)))
  /\ file0 \in Files
  /\ file = file0
  /\ opens = 0
  /\ pc = "start"
  /\ exit_status = None
  /\ extensions_to_use = << >>
  /\ i = 1
  /\ found_files = << >>
  /\ gets = << >>
  /\ inflight = {}
  /\ hops = 0
  /\ raised = {}
  /\ stdout = << >>
  /\ log = << >>

\* The records main emits before validating (src/main.py 90-92).
log_start == IF verbose THEN << << "DEBUG", "Verbose mode enabled." >> >> ELSE << >>

\* main on an invalid URL that logs the error and goes on to scan.
Reject_and_scan ==
  /\ pc = "start"
  /\ ~is_valid_url(url)
  /\ log' = Append(log_start, << "ERROR", "Invalid URL provided." >>)
  /\ extensions_to_use' = ExtensionsToUse(extensions)
  /\ pc' = "probe"
  /\ UNCHANGED << args, file, opens, exit_status, i, found_files, gets, inflight,
                  hops, raised, stdout >>

\* main, invalid URL: log the error and sys.exit(1) (src/main.py 88-98).
Reject ==
  /\ pc = "start"
  /\ ~is_valid_url(url)
  /\ log' = Append(log_start, << "ERROR", "Invalid URL provided." >>)
  /\ pc' = "exit"
  /\ exit_status' = Some(1)
  /\ UNCHANGED << args, file, opens, extensions_to_use, i, found_files, gets,
                  inflight, hops, raised, stdout >>

\* main, valid URL: choose the suffix list and enter check_backup_files
\* (src/main.py 88-105, 50).
Accept ==
  /\ pc = "start"
  /\ is_valid_url(url)
  /\ log' = Append(log_start, << "INFO", "Scanning URL" >>)
  /\ extensions_to_use' = ExtensionsToUse(extensions)
  /\ found_files' = << >>
  /\ i' = 1
  /\ pc' = "probe"
  /\ UNCHANGED << args, file, opens, exit_status, gets, inflight, hops, raised, stdout >>

\* A loop that issues the request and moves on without waiting for the answer.
Get_no_wait ==
  /\ pc = "probe"
  /\ i <= Len(extensions_to_use)
  /\ log' = Emit(log, "DEBUG", "Checking for")
  /\ gets' = Append(gets, [pos |-> i, url |-> backup_url(url, extensions_to_use[i])])
  /\ inflight' = inflight \cup {i}
  /\ hops' = 0
  /\ i' = i + 1
  /\ UNCHANGED << args, file, opens, pc, exit_status, extensions_to_use, found_files,
                  raised, stdout >>

\* One iteration's request: requests.get(backup_url, allow_redirects=True)
\* (src/main.py 51-55).
Get ==
  /\ pc = "probe"
  /\ i <= Len(extensions_to_use)
  /\ log' = Emit(log, "DEBUG", "Checking for")
  /\ gets' = Append(gets, [pos |-> i, url |-> backup_url(url, extensions_to_use[i])])
  /\ inflight' = inflight \cup {i}
  /\ hops' = 0
  /\ pc' = "wait"
  /\ UNCHANGED << args, file, opens, exit_status, extensions_to_use, i, found_files,
                  raised, stdout >>

\* The GET in flight follows one redirect (allow_redirects=True, src/main.py 55).
Follow ==
  /\ pc = "wait"
  /\ hops < MaxHops
  /\ hops' = hops + 1
  /\ UNCHANGED << args, file, opens, pc, exit_status, extensions_to_use, i,
                  found_files, gets, inflight, raised, stdout, log >>

\* The rest of an iteration with the except clause outside the for loop: an
\* exception ends the scan.
Resolve_abort(o) ==
  /\ pc = "wait"
  /\ Is200(o) <=> i \in ok200
  /\ inflight' = inflight \ {i}
  /\ IF raises(o)
     THEN /\ log' = Emit(log, "DEBUG", "Error checking")
          /\ raised' = raised \cup {i}
          /\ i' = Len(extensions_to_use) + 1
          /\ UNCHANGED found_files
     ELSE /\ i' = i + 1
          /\ UNCHANGED raised
          /\ IF status_is_200(o)
             THEN /\ log' = Emit(log, "INFO", "Found backup file")
                  /\ found_files' = Append(found_files, backup_url(url, extensions_to_use[i]))
             ELSE /\ log' = Emit(log, "DEBUG", "Status code")
                  /\ UNCHANGED found_files
  /\ hops' = 0
  /\ pc' = "probe"
  /\ UNCHANGED << args, file, opens, exit_status, extensions_to_use, gets, stdout >>

\* The rest of an iteration once the GET ends in o: raise_for_status, the
\* status test, the except clause, and on to the next suffix (src/main.py 56-64).
\* The server answers 200 at the positions of ok200 and anything else elsewhere.
Resolve(o) ==
  /\ pc = "wait"
  /\ Is200(o) <=> i \in ok200
  /\ inflight' = inflight \ {i}
  /\ IF raises(o)
     THEN /\ log' = Emit(log, "DEBUG", "Error checking")
          /\ raised' = raised \cup {i}
          /\ UNCHANGED found_files
     ELSE /\ UNCHANGED raised
          /\ IF status_is_200(o)
             THEN /\ log' = Emit(log, "INFO", "Found backup file")
                  /\ found_files' = Append(found_files, backup_url(url, extensions_to_use[i]))
             ELSE /\ log' = Emit(log, "DEBUG", "Status code")
                  /\ UNCHANGED found_files
  /\ i' = i + 1
  /\ hops' = 0
  /\ pc' = "probe"
  /\ UNCHANGED << args, file, opens, exit_status, extensions_to_use, gets, stdout >>


\* The loop leaving one suffix early (an off-by-one in the iteration).
Return_early ==
  /\ pc = "probe"
  /\ i >= Len(extensions_to_use)
  /\ pc' = "report"
  /\ UNCHANGED << args, file, opens, exit_status, extensions_to_use, i, found_files,
                  gets, inflight, hops, raised, stdout, log >>

\* The for loop is exhausted: return found_files to main (src/main.py 51, 66, 105).
Return ==
  /\ pc = "probe"
  /\ i > Len(extensions_to_use)
  /\ pc' = "report"
  /\ UNCHANGED << args, file, opens, exit_status, extensions_to_use, i, found_files,
                  gets, inflight, hops, raised, stdout, log >>

RECURSIVE printed(_)
\* for file in found_files: print(file) (src/main.py 109-110)
printed(results) ==
  IF results = << >> THEN << >> ELSE Line(Head(results)) \o printed(Tail(results))

\* main's report with the save outside the if: save_results runs whenever -o is given.
Report_always_saves ==
  /\ pc = "report"
  /\ stdout' = IF found_files # << >>
               THEN stdout \o Line(HEADER) \o printed(found_files)
               ELSE stdout \o Line(NOT_FOUND)
  /\ IF Truthy(output)
     THEN pc' = "save" /\ UNCHANGED exit_status
     ELSE pc' = "exit" /\ exit_status' = Some(0)
  /\ UNCHANGED << args, file, opens, extensions_to_use, i, found_files, gets,
                  inflight, hops, raised, log >>

\* main's report: header and URLs, then save_results when -o is given; or the
\* not-found message. Without a save the run ends here, status 0 (src/main.py 107-115).
Report ==
  /\ pc = "report"
  /\ IF found_files # << >>
     THEN /\ stdout' = stdout \o Line(HEADER) \o printed(found_files)
          /\ IF Truthy(output)
             THEN pc' = "save" /\ UNCHANGED exit_status
             ELSE pc' = "exit" /\ exit_status' = Some(0)
     ELSE /\ stdout' = stdout \o Line(NOT_FOUND)
          /\ pc' = "exit"
          /\ exit_status' = Some(0)
  /\ UNCHANGED << args, file, opens, extensions_to_use, i, found_files, gets,
                  inflight, hops, raised, log >>

\* open(filename, "a"): the earlier text is kept.
opened_for_append(old) == IF IsNone(old) THEN << >> ELSE old[1]

\* open(filename, "w"): the file is created or truncated (src/main.py 77).
opened(old) == << >>

RECURSIVE written(_, _, _)
\* The text of the file after the first k results were written onto text
\* (src/main.py 78-79).
written(text, results, k) ==
  IF k = 0 THEN text
  ELSE written(text, results, k - 1) \o results[k] \o NL

\* save_results without the except clause: the IOError ends the run with status 1.
save_results_uncaught ==
  /\ pc = "save"
  /\ opens' = opens + 1
  /\ \/ /\ file' = file
        /\ UNCHANGED log
        /\ exit_status' = Some(1)
     \/ \E k \in 0..(Len(found_files) - 1) :
          /\ file' = Some(written(opened(file), found_files, k))
          /\ UNCHANGED log
          /\ exit_status' = Some(1)
     \/ /\ file' = Some(written(opened(file), found_files, Len(found_files)))
        /\ log' = Emit(log, "INFO", "Results saved")
        /\ exit_status' = Some(0)
  /\ pc' = "exit"
  /\ UNCHANGED << args, extensions_to_use, i, found_files, gets, inflight, hops,
                  raised, stdout >>

\* save_results(args.output, found_files), then main returns: status 0
\* (src/main.py 68-82, 113). open() may fail and leave the file alone; a write
\* may fail after k results; either IOError is caught and logged.
save_results ==
  /\ pc = "save"
  /\ opens' = opens + 1
  /\ \/ /\ file' = file
        /\ log' = Emit(log, "ERROR", "Error saving results")
     \/ \E k \in 0..(Len(found_files) - 1) :
          /\ file' = Some(written(opened(file), found_files, k))
          /\ log' = Emit(log, "ERROR", "Error saving results")
     \/ /\ file' = Some(written(opened(file), found_files, Len(found_files)))
        /\ log' = Emit(log, "INFO", "Results saved")
  /\ pc' = "exit"
  /\ exit_status' = Some(0)
  /\ UNCHANGED << args, extensions_to_use, i, found_files, gets, inflight, hops,
                  raised, stdout >>

\* The steps the program takes by itself.
Step == Reject \/ Accept \/ Get \/ Return \/ Report \/ save_results

\* The steps that wait on the network.
Respond == \E o \in Outcomes : Resolve(o)

Next == Step \/ Follow \/ Respond

Spec == Init /\ [][Next]_vars

\* The runs explored under fairness: every command line with an -e list, and the
\* default list with -o given, without -v and with no earlier output file,
\* against every server.
FairInit ==
  /\ Init
  /\ IsNone(extensions) => url = U_plain /\ ~verbose /\ Truthy(output) /\ IsNone(file0)

\* The program is sequential and always takes its next step; every GET that was
\* issued resolves.
FairSpec == FairInit /\ [][Next]_vars /\ WF_vars(Step) /\ WF_vars(Respond)

\* The validator alone, on every string of at most MaxLen characters.
UrlInit ==
  /\ url \in UrlStrings
  /\ verbose = FALSE
  /\ output = None
  /\ extensions = None
  /\ ok200 = {}
  /\ file0 = None
  /\ file = file0
  /\ opens = 0
  /\ pc = "start"
  /\ exit_status = None
  /\ extensions_to_use = << >>
  /\ i = 1
  /\ found_files = << >>
  /\ gets = << >>
  /\ inflight = {}
  /\ hops = 0
  /\ raised = {}
  /\ stdout = << >>
  /\ log = << >>

UrlNext == Reject \/ Accept

UrlSpec == UrlInit /\ [][UrlNext]_vars


\* ------------------------------------------------------------------ claims

Valid == is_valid_url(url)
Exited == pc = "exit"
\* check_backup_files has returned.
Scanned == pc \in {"report", "save", "exit"} /\ Valid

\* The seven default suffixes, as the documentation lists them.
Defaults7 ==
  << <<".", "b", "a", "k">>, <<".", "s", "w", "p">>, <<"~">>, <<".", "o", "l", "d">>,
     <<".", "t", "m", "p">>, <<".", "b", "a", "c", "k", "u", "p">>,
     <<".", "o", "r", "i", "g">> >>

\* The suffix list the command line asks for.
SuffixList == IF IsNone(extensions) THEN Defaults7 ELSE extensions[1]

\* The candidate of suffix position k.
Candidate(k) == url \o SuffixList[k]

RECURSIVE ExpectedFound(_)
\* The candidates among the first k whose final status is 200, in list order.
ExpectedFound(k) ==
  IF k = 0 THEN << >>
  ELSE ExpectedFound(k - 1) \o (IF k \in ok200 THEN << Candidate(k) >> ELSE << >>)

RECURSIVE UrlLines(_)
\* Each URL followed by a newline.
UrlLines(urls) ==
  IF urls = << >> THEN << >> ELSE Head(urls) \o NL \o UrlLines(Tail(urls))

Logged(level, msg) == \E k \in 1..Len(log) : log[k] = << level, msg >>
WriteSucceeded == Logged("INFO", "Results saved")
WriteFailed == Logged("ERROR", "Error saving results")

\* C1: a run whose URL fails validation issues no GET, prints nothing to
\* standard output and leaves the output file alone in every state, and exits
\* with status 1.
C1_InvalidUrlExits1 ==
  ~Valid =>
    /\ gets = << >>
    /\ inflight = {}
    /\ stdout = << >>
    /\ opens = 0
    /\ file = file0
    /\ pc \in {"start", "exit"}
    /\ (Exited => exit_status = Some(1))

C1_Witness == ~Valid /\ Exited /\ exit_status = Some(1) /\ Truthy(output) /\ url = U_bracket

\* C2: check_backup_files returns exactly the candidates url + suffix whose
\* final status is 200, in suffix-list order; other 2xx, terminal 3xx, 4xx, 5xx
\* and network errors are left out.
C2_FoundExactly200 ==
  Scanned => found_files = ExpectedFound(Len(SuffixList))

C2_Witness ==
  /\ Scanned
  /\ SuffixList = Defaults7
  /\ ok200 = {1, 6}
  /\ raised = {2, 4}
  /\ found_files = << url \o <<".", "b", "a", "k">>, url \o <<".", "b", "a", "c", "k", "u", "p">> >>

\* C3: an exception on the suffix at position i does not end the scan: every
\* later position is still requested, and whether any other candidate is in the
\* result depends on its own outcome only.
C3_ErrorDoesNotAbort ==
  Scanned =>
    \A e \in raised :
      /\ \A j \in (e + 1)..Len(SuffixList) :
           \E k \in 1..Len(gets) : gets[k].pos = j /\ gets[k].url = Candidate(j)
      /\ \A j \in (1..Len(SuffixList)) \ {e} :
           Contains(found_files, Candidate(j))
             <=> \E k \in ok200 : Candidate(k) = Candidate(j)

C3_Witness ==
  /\ Scanned
  /\ \E e \in raised : \E j \in ok200 : e < j /\ Contains(found_files, Candidate(j))

\* C4: the suffixes probed are exactly the -e list in its order when -e is
\* given, and exactly the seven defaults in their order when it is not; the two
\* are never merged.
C4_SuffixListUsed ==
  /\ \A k \in 1..Len(gets) :
       /\ k <= Len(SuffixList)
       /\ gets[k].url = url \o SuffixList[k]
  /\ (Scanned => Len(gets) = Len(SuffixList))
  /\ (~IsNone(extensions) /\ Scanned =>
        \A d \in 1..Len(Defaults7) :
          ~Contains(extensions[1], Defaults7[d]) =>
            \A k \in 1..Len(gets) : gets[k].url # url \o Defaults7[d])

C4_Witness ==
  /\ Scanned
  /\ extensions = Some(<< E_old, E_config >>)
  /\ Len(gets) = 2

\* C5: when no candidate of a scan returns 200, the output file is never
\* opened or changed, with or without -o, and standard output ends up holding
\* the not-found message alone.
C5_NothingFoundNoFile ==
  (Valid /\ ok200 = {}) =>
    /\ opens = 0
    /\ file = file0
    /\ stdout \in {<< >>, NOT_FOUND \o NL}
    /\ (Exited => stdout = NOT_FOUND \o NL)

C5_Witness ==
  Valid /\ ok200 = {} /\ Exited /\ Truthy(output) /\ file0 # None /\ raised # {}

\* C6: with a 200 found, -o naming a path and the write succeeding, the file
\* ends up holding exactly the found URLs in result order, each followed by a
\* newline, whatever it held before, and standard output is the header line
\* followed by the same text.
C6_FileHoldsFoundUrls ==
  (Exited /\ Valid /\ ok200 # {} /\ Truthy(output) /\ WriteSucceeded) =>
    /\ file = Some(UrlLines(ExpectedFound(Len(SuffixList))))
    /\ stdout = HEADER \o NL \o file[1]

C6_Witness ==
  /\ Exited /\ Valid /\ Truthy(output) /\ WriteSucceeded
  /\ Cardinality(ok200) >= 2
  /\ file0 = Some(OldText)
  /\ file # file0

\* C7: the exit status is 1 exactly when the URL fails validation; a run with a
\* valid URL exits 0 whatever the probes returned, also when writing the output
\* file fails, and then the found URLs are already on standard output.
C7_ExitStatus ==
  /\ Exited =>
       /\ exit_status \in {Some(0), Some(1)}
       /\ (exit_status = Some(1) <=> ~Valid)
       /\ (Valid => exit_status = Some(0))
  /\ ~Exited => exit_status = None
  /\ pc = "save" \/ WriteFailed =>
       stdout = HEADER \o NL \o UrlLines(found_files) /\ found_files # << >>

C7_Witness == Exited /\ Valid /\ WriteFailed /\ exit_status = Some(0) /\ file # file0

\* The host name of an authority, as urllib's hostname property reads it: the
\* text after the last '@', up to the port's ':' (or between brackets).
hostname(netloc) ==
  LET ats == {k \in 1..Len(netloc) : netloc[k] = "@"}
      last == IF ats = {} THEN 0 ELSE CHOOSE k \in ats : \A j \in ats : j <= k
      hostinfo == Tail_(netloc, last + 1)
      open == Find(hostinfo, "[", 1)
      bracketed == Tail_(hostinfo, open + 1)
      close == Find(bracketed, "]", 1)
      colon == Find(hostinfo, ":", 1)
  IN IF open > 0
     THEN (IF close = 0 THEN bracketed ELSE SubSeq(bracketed, 1, close - 1))
     ELSE (IF colon = 0 THEN hostinfo ELSE SubSeq(hostinfo, 1, colon - 1))

\* C8: is_valid_url returns True exactly when the URL parses to a non-empty
\* scheme and a non-empty host; an authority holding only a port or only
\* user-info is invalid; a parse error gives False.
C8_ValidIffSchemeAndHost ==
  pc # "start" =>
    ((pc # "exit") <=>
       /\ ~urlsplit(url).err
       /\ urlsplit(url).scheme # << >>
       /\ hostname(urlsplit(url).netloc) # << >>)

\* C9: at most one request is outstanding; requests are issued in suffix-list
\* order, each position once, the next only after the previous has resolved;
\* a scan issues as many GETs as there are suffixes.
C9_OneRequestAtATime ==
  /\ Cardinality(inflight) <= 1
  /\ \A k \in 1..Len(gets) : gets[k].pos = k
  /\ inflight \subseteq {Len(gets)}
  /\ (inflight # {} <=> pc = "wait")
  /\ Len(gets) <= Len(SuffixList)
  /\ (Scanned => Len(gets) = Len(SuffixList) /\ inflight = {})

C9_Witness ==
  /\ pc = "wait" /\ inflight = {3} /\ Len(gets) = 3 /\ raised = {1, 2} /\ hops = 1

\* The edges of the control flow: Start/Validate, Invalid -> Exit 1,
\* Valid -> Probe (request, wait) -> Report (save) -> Exit 0.
Edges ==
  { << "start", "exit" >>, << "start", "probe" >>, << "probe", "wait" >>,
    << "wait", "wait" >>, << "wait", "probe" >>, << "probe", "report" >>,
    << "report", "save" >>, << "report", "exit" >>, << "save", "exit" >> }

\* A step of the run follows an edge of the control flow.
FollowsEdge == << pc, pc' >> \in Edges

C10_Order ==
  /\ (pc = "start" => gets = << >> /\ stdout = << >> /\ opens = 0)
  /\ (gets # << >> => Valid)
  /\ (stdout # << >> \/ opens > 0 \/ file # file0 =>
        /\ Len(gets) = Len(SuffixList)
        /\ inflight = {}
        /\ i = Len(SuffixList) + 1)
  /\ (Exited /\ ~Valid => exit_status = Some(1))
  /\ (Exited /\ Valid => exit_status = Some(0))

\* C10: a run goes Start, Validate, then Invalid -> Exit 1 or Valid -> Probe ->
\* Report -> Exit 0; nothing is probed before validation succeeds, nothing is
\* printed or written before the last suffix is probed, and, every request
\* resolving, the run reaches its exit.
C10_ControlFlow ==
  /\ [][FollowsEdge]_vars
  /\ []C10_Order
  /\ <>(Exited /\ exit_status \in {Some(0), Some(1)})

C10_Witness == Exited /\ Valid /\ opens = 1 /\ Len(gets) = 7 /\ raised # {} /\ ok200 # {}

====
